---- MODULE Spec2Model ----
(***************************************************************************)
(* Model of the Gemini client glue: the Transport Client                   *)
(* (services/geminiService: apiClient, fetchData, postData, uploadFile,    *)
(* geminiApi) and the Request Orchestrator (hooks/useGeminiApi).           *)
(*                                                                         *)
(* Execution is single-threaded and event-driven.  A step of the model is  *)
(* one task of the event loop: either a caller invoking an operation (the  *)
(* synchronous prefix of the async function, up to the request being       *)
(* handed to the HTTP client) or the arrival of the outcome of an          *)
(* outstanding request together with the chain of continuations it         *)
(* triggers (response interceptor, transport primitive, binding,           *)
(* orchestrator try/catch), which run to completion before any other task. *)
(* Console logging and toast notifications do not influence any value and  *)
(* are not part of the state.                                              *)
(***************************************************************************)
EXTENDS Integers, Sequences, FiniteSets, TLC

VARIABLES isLoading, error, calls

vars == <<isLoading, error, calls>>

(* Number of calls a behaviour may make; calls are numbered in the order   *)
(* of their invocation.                                                    *)
MaxCalls == 2

CallIds == 1..MaxCalls

---------------------------------------------------------------------------
(* config/api.ts *)

GEMINI_API_URL == "https://govigyan-gemini.onrender.com"

API_TIMEOUT == 120000

ENDPOINTS ==
    [ ANALYZE_IMAGE   |-> "/upload-flash",
      GET_ANALYSIS    |-> "/results",
      EXTRACT_DATA    |-> "/upload-flash",
      CREATE_DATABASE |-> "/create-database",
      INSERT_DATA     |-> "/insert-data",
      CSV_DATA        |-> "/results",
      UPDATE_CSV_DATA |-> "/update" ]

---------------------------------------------------------------------------
(* Values *)

(* String.prototype.includes: sub occurs in s as a contiguous substring.   *)
Includes(s, sub) ==
    \E i \in 1..(Len(s) - Len(sub) + 1) : SubSeq(s, i, i + Len(sub) - 1) = sub

(* The value null of the error slot and of an absent error.                *)
null == [name |-> "null", code |-> "", message |-> "", status |-> 0, data |-> ""]

(* new Error(message): a plain Error, without code or response.            *)
NewError(message) ==
    [name |-> "Error", code |-> "", message |-> message, status |-> 0, data |-> ""]

(* An error raised by the HTTP client: error.code, error.message and, when *)
(* a response arrived, error.response.status and                           *)
(* error.response.data.message.                                            *)
AxiosError(code, message, status, bodyMessage) ==
    [name |-> "AxiosError", code |-> code, message |-> message,
     status |-> status, data |-> bodyMessage]

(* err instanceof Error *)
IsError(err) == err.name \in {"Error", "AxiosError"}

(* The ways a request issued through apiClient can fail: no connection,    *)
(* the client's timeout, and failure responses with or without a message   *)
(* in the body.                                                            *)
AxiosFailures ==
    { AxiosError("ERR_NETWORK", "Network Error", 0, ""),
      AxiosError("ECONNABORTED",
                 "timeout of " \o ToString(API_TIMEOUT) \o "ms exceeded", 0, ""),
      AxiosError("ERR_BAD_REQUEST", "Request failed with status code 404", 404, ""),
      AxiosError("ERR_BAD_RESPONSE", "Request failed with status code 500", 500,
                 "Network error: upstream unavailable"),
      AxiosError("ERR_BAD_REQUEST", "Request failed with status code 400", 400,
                 "Invalid file") }

(* Response bodies the remote service may answer with.                     *)
Bodies == { "[{id:1}]", "{}" }

(* Identifiers a caller may pass (analysis id, CSV row id).                *)
Ids == { "1" }

(* Outcome of a promise: pending, resolved with data, rejected with err.   *)
Pending == [status |-> "pending", data |-> "", err |-> null]

Resolved(data) == [status |-> "resolved", data |-> data, err |-> null]

Rejected(err) == [status |-> "rejected", data |-> "", err |-> err]

Request(method, url) == [method |-> method, url |-> url]

---------------------------------------------------------------------------
(* Operations *)

OrchestratorOps ==
    { "analyzeImage", "extractDataFromImage", "getAnalysisResults",
      "processFiles", "createDatabase", "insertDataIntoPostgres",
      "getCsvData", "updateCsvData", "getAllCsvData" }

(* Transport primitives exported for direct use; postData has no binding   *)
(* in geminiApi.                                                           *)
TransportOps == { "postData" }

Ops == OrchestratorOps \cup TransportOps

(* Which transport primitive a binding of geminiApi goes through.          *)
Primitive(op) ==
    CASE op \in {"analyzeImage", "extractDataFromImage"} -> "uploadFile"
      [] op = "getAnalysisResults" -> "fetchData"
      [] op = "postData" -> "postData"
      [] op \in {"processFiles", "createDatabase", "insertDataIntoPostgres",
                 "updateCsvData"} -> "apiClient.post"
      [] op \in {"getCsvData", "getAllCsvData"} -> "apiClient.get"

(* The request a binding issues to its real endpoint.                      *)
Endpoint(op, id) ==
    CASE op = "analyzeImage" -> Request("POST", ENDPOINTS.ANALYZE_IMAGE)
      [] op = "extractDataFromImage" -> Request("POST", ENDPOINTS.EXTRACT_DATA)
      [] op = "getAnalysisResults" ->
            Request("GET", ENDPOINTS.GET_ANALYSIS \o "/" \o id)
      [] op = "processFiles" -> Request("POST", ENDPOINTS.EXTRACT_DATA)
      [] op = "createDatabase" -> Request("POST", "/create-database")
      [] op = "insertDataIntoPostgres" -> Request("POST", "/insert-data")
      [] op = "getCsvData" -> Request("GET", ENDPOINTS.CSV_DATA \o "/" \o id)
      [] op = "updateCsvData" ->
            Request("POST", ENDPOINTS.UPDATE_CSV_DATA \o "/" \o id)
      [] op = "getAllCsvData" -> Request("GET", ENDPOINTS.CSV_DATA)
      [] op = "postData" -> Request("POST", ENDPOINTS.INSERT_DATA)

HealthProbe == Request("GET", "/health")

---------------------------------------------------------------------------
(* Transport Client: services/geminiService *)

UnreachableMessage ==
    "API server is not reachable. Please check the server status."

NetworkFailedMessage ==
    "Network connection failed. Please check if the API server is running at "
        \o GEMINI_API_URL

(* apiClient.interceptors.response: a response is passed on as it is; an   *)
(* error is notified to the user and rejected again, the same error.       *)
responseInterceptor(outcome) ==
    IF outcome.status = "resolved"
    THEN Resolved(outcome.data)
    ELSE Rejected(outcome.err)

(* A fetchData whose catch wraps the error in a new Error.                  *)
fetchData_Wraps(outcome) ==
    IF outcome.status = "resolved"
    THEN Resolved(outcome.data)
    ELSE Rejected(NewError(outcome.err.message))

(* fetchData: return response.data; catch (error) { throw error }.         *)
fetchData(outcome) ==
    IF outcome.status = "resolved"
    THEN Resolved(outcome.data)
    ELSE Rejected(outcome.err)

(* postData: return response.data; catch (error) { throw error }.          *)
postData(outcome) ==
    IF outcome.status = "resolved"
    THEN Resolved(outcome.data)
    ELSE Rejected(outcome.err)

(* The bindings of geminiApi that call apiClient.get / apiClient.post      *)
(* themselves: return response.data; catch (error) { throw error }.        *)
geminiApiInline(outcome) ==
    IF outcome.status = "resolved"
    THEN Resolved(outcome.data)
    ELSE Rejected(outcome.err)

(* An inner catch that throws the probe's own error again.                 *)
uploadFileHealthCatch_Rethrows(healthError) == healthError

(* uploadFile, inner catch (healthError): any failure of the probe is      *)
(* replaced by a new Error.                                                *)
uploadFileHealthCatch(healthError) == NewError(UnreachableMessage)

(* uploadFile, outer catch (error): a network failure is replaced by a new *)
(* Error naming the base address, anything else is thrown again.           *)
uploadFileCatch(err) ==
    IF err.code = "ERR_NETWORK"
    THEN NewError(NetworkFailedMessage)
    ELSE err

(* uploadFile once the probe has failed: the inner catch throws inside the *)
(* outer try, so the outer catch sees the synthesized error.               *)
uploadFileProbeFailed(healthOutcome) ==
    Rejected(uploadFileCatch(uploadFileHealthCatch(healthOutcome.err)))

(* uploadFile once the multipart POST has settled.                         *)
uploadFile(outcome) ==
    IF outcome.status = "resolved"
    THEN Resolved(outcome.data)
    ELSE Rejected(uploadFileCatch(outcome.err))

(* The promise of a binding, given the outcome of its request at the HTTP  *)
(* client.                                                                 *)
geminiApi(op, outcome) ==
    LET seen == responseInterceptor(outcome) IN
    CASE Primitive(op) = "uploadFile" -> uploadFile(seen)
      [] Primitive(op) = "fetchData" -> fetchData(seen)
      [] Primitive(op) = "postData" -> postData(seen)
      [] OTHER -> geminiApiInline(seen)

---------------------------------------------------------------------------
(* Request Orchestrator: hooks/useGeminiApi *)

TookTooLongMessage ==
    "The request took too long to process. Please try with a smaller file or try again later."

CannotConnectMessage ==
    "Cannot connect to the API server at " \o GEMINI_API_URL
        \o ". Please check if the server is running."

EndpointNotFoundMessage ==
    "API endpoint not found. Please check the API configuration."

ServerErrorMessage == "Server error occurred. Please try again later."

UnknownErrorMessage == "Unknown error occurred"

(* The first two statements of every operation.                            *)
orchestratorStart(current) == [isLoading |-> TRUE, error |-> null]

(* A try branch that drops the result (a missing return).                  *)
orchestratorTry_NoReturn(result, current) ==
    [isLoading |-> FALSE, error |-> current, result |-> Resolved("")]

(* The try branch of every operation: setIsLoading(false); return result.  *)
(* The error slot is not written.                                          *)
orchestratorTry(result, current) ==
    [isLoading |-> FALSE, error |-> current, result |-> Resolved(result)]

(* analyzeImage, catch (err): the local errorMessage.                      *)
analyzeImageErrorMessage(err) ==
    IF ~IsError(err) THEN UnknownErrorMessage
    ELSE IF Includes(err.message, "timeout") THEN TookTooLongMessage
    ELSE IF Includes(err.message, "Network") THEN CannotConnectMessage
    ELSE IF Includes(err.message, "404") THEN EndpointNotFoundMessage
    ELSE IF Includes(err.message, "500") THEN ServerErrorMessage
    ELSE err.message

(* A catch branch of analyzeImage that leaves loading set.                 *)
analyzeImageCatch_LoadingKept(err) ==
    LET e == IF IsError(err) THEN err ELSE NewError(UnknownErrorMessage)
    IN [isLoading |-> TRUE, error |-> e, result |-> Rejected(e)]

(* analyzeImage, catch (err): errorMessage is used only when err is not an *)
(* Error; an Error is stored and thrown as it was caught.                  *)
analyzeImageCatch(err) ==
    LET e == IF IsError(err) THEN err ELSE NewError(analyzeImageErrorMessage(err))
    IN [isLoading |-> FALSE, error |-> e, result |-> Rejected(e)]

(* A catch branch that leaves loading set.                                 *)
orchestratorCatch_LoadingKept(err) ==
    [isLoading |-> TRUE,
     error |-> IF IsError(err) THEN err ELSE NewError(UnknownErrorMessage),
     result |-> Rejected(err)]

(* A catch branch that stores the error and returns normally.              *)
orchestratorCatch_Swallows(err) ==
    [isLoading |-> FALSE,
     error |-> IF IsError(err) THEN err ELSE NewError(UnknownErrorMessage),
     result |-> Resolved("")]

(* A catch branch that stores a generic error in place of the caught one.  *)
orchestratorCatch_StoresGeneric(err) ==
    [isLoading |-> FALSE,
     error |-> NewError(UnknownErrorMessage),
     result |-> Rejected(err)]

(* The catch branch of the eight other operations.                         *)
orchestratorCatch(err) ==
    [isLoading |-> FALSE,
     error |-> IF IsError(err) THEN err ELSE NewError(UnknownErrorMessage),
     result |-> Rejected(err)]

(* What an operation does once its binding has settled: the writes to the  *)
(* shared slots and the outcome handed to the caller.  A transport         *)
(* primitive called directly touches neither slot.                         *)
useGeminiApi(op, binding, loadingNow, errorNow) ==
    IF op \notin OrchestratorOps
    THEN [isLoading |-> loadingNow, error |-> errorNow, result |-> binding]
    ELSE IF binding.status = "resolved"
    THEN orchestratorTry(binding.data, errorNow)
    ELSE IF op = "analyzeImage"
    THEN analyzeImageCatch(binding.err)
    ELSE orchestratorCatch(binding.err)

---------------------------------------------------------------------------
(* State *)

(* pc: "idle" (not invoked), "health" (reachability probe outstanding),    *)
(* "request" (request to the real endpoint outstanding), "done" (settled). *)
(* sent: the requests handed to apiClient, in order.  health, response:    *)
(* what apiClient answered.  binding: the promise of the binding.  result: *)
(* the promise handed to the caller.  bindingCalls: how often the binding  *)
(* was invoked.                                                            *)
IdleCall ==
    [pc |-> "idle", op |-> "none", id |-> "", sent |-> <<>>, health |-> Pending,
     response |-> Pending, binding |-> Pending, result |-> Pending,
     bindingCalls |-> 0]

Init ==
    /\ isLoading = FALSE
    /\ error = null
    /\ calls = [c \in CallIds |-> IdleCall]

(* The synchronous prefix of an invocation: the binding is called once and *)
(* hands its first request to apiClient (the probe for uploadFile).        *)
Started(op, id) ==
    [IdleCall EXCEPT
        !.op = op,
        !.id = id,
        !.bindingCalls = 1,
        !.pc = IF Primitive(op) = "uploadFile" THEN "health" ELSE "request",
        !.sent = IF Primitive(op) = "uploadFile"
                 THEN <<HealthProbe>>
                 ELSE <<Endpoint(op, id)>>]

(* uploadFile after a successful probe: the multipart POST is issued.      *)
ProbeSucceeded(call) ==
    [call EXCEPT
        !.health = Resolved("ok"),
        !.pc = "request",
        !.sent = Append(@, Endpoint(call.op, call.id))]

(* A call that issues its failed request once more before giving up.       *)
Settled_Retries(call, binding, result) ==
    IF binding.status = "rejected" /\ Len(call.sent) < 3
    THEN [call EXCEPT !.sent = Append(@, call.sent[Len(call.sent)])]
    ELSE [call EXCEPT !.pc = "done", !.binding = binding, !.result = result]

(* A call whose binding has settled with `binding`: nothing is re-issued.  *)
Settled(call, binding, result) ==
    [call EXCEPT !.pc = "done", !.binding = binding, !.result = result]

Invoke(c, op, id) ==
    /\ calls[c].pc = "idle"
    /\ \A d \in CallIds : d < c => calls[d].pc # "idle"
    /\ LET s == orchestratorStart(error) IN
        /\ isLoading' = IF op \in OrchestratorOps THEN s.isLoading ELSE isLoading
        /\ error' = IF op \in OrchestratorOps THEN s.error ELSE error
    /\ calls' = [calls EXCEPT ![c] = Started(op, id)]

HealthOk(c) ==
    /\ calls[c].pc = "health"
    /\ calls' = [calls EXCEPT ![c] = ProbeSucceeded(calls[c])]
    /\ UNCHANGED <<isLoading, error>>

HealthFails(c, e) ==
    /\ calls[c].pc = "health"
    /\ LET probe == responseInterceptor(Rejected(e))
           binding == uploadFileProbeFailed(probe)
           u == useGeminiApi(calls[c].op, binding, isLoading, error)
       IN /\ calls' = [calls EXCEPT
                          ![c] = Settled([calls[c] EXCEPT !.health = Rejected(e)],
                                         binding, u.result)]
          /\ isLoading' = u.isLoading
          /\ error' = u.error

RequestSettles(c, outcome) ==
    /\ calls[c].pc = "request"
    /\ LET binding == geminiApi(calls[c].op, outcome)
           u == useGeminiApi(calls[c].op, binding, isLoading, error)
       IN /\ calls' = [calls EXCEPT
                          ![c] = Settled([calls[c] EXCEPT !.response = outcome],
                                         binding, u.result)]
          /\ isLoading' = u.isLoading
          /\ error' = u.error

RequestSucceeds(c, data) == RequestSettles(c, Resolved(data))

RequestFails(c, e) == RequestSettles(c, Rejected(e))

(* The settlement of the outstanding request of call c, with the answer    *)
(* drawn from the given bodies and failures.                               *)
Responds(c, bodies, failures) ==
    \/ HealthOk(c)
    \/ \E e \in failures : HealthFails(c, e)
    \/ \E data \in bodies : RequestSucceeds(c, data)
    \/ \E e \in failures : RequestFails(c, e)

NextOver(ops, bodies, failures) ==
    \E c \in CallIds :
        \/ \E op \in ops, id \in Ids : Invoke(c, op, id)
        \/ Responds(c, bodies, failures)

Next == NextOver(Ops, Bodies, AxiosFailures)

Spec == Init /\ [][Next]_vars

---------------------------------------------------------------------------
(* Vocabulary of the properties *)

Orchestrated(c) == calls[c].op \in OrchestratorOps

InFlight(c) == calls[c].pc \in {"health", "request"}

Done(c) == calls[c].pc = "done"

(* Step predicates: call c is invoked, respectively settles, in this step. *)
Invokes(c) == calls[c].pc = "idle" /\ calls'[c].pc # "idle"

Settles(c) == calls[c].pc \in {"health", "request"} /\ calls'[c].pc = "done"

InvokesOrchestrated(c) == Invokes(c) /\ calls'[c].op \in OrchestratorOps

SettlesOrchestrated(c) == Settles(c) /\ calls[c].op \in OrchestratorOps

Posts(c) == { i \in 1..Len(calls[c].sent) : calls[c].sent[i] # HealthProbe }

Probes(c) == { i \in 1..Len(calls[c].sent) : calls[c].sent[i] = HealthProbe }

---------------------------------------------------------------------------
(* C1 *)

(* C1 as stated: for every Orchestrator operation, loading is true in      *)
(* every state in which the operation is in flight, and false in the state *)
(* its settlement produces.                                                *)
C1_LoadingTrueWhileInFlight ==
    [][\A c \in CallIds :
          /\ (calls'[c].op \in OrchestratorOps /\ calls'[c].pc \in {"health", "request"})
                => isLoading'
          /\ SettlesOrchestrated(c) => ~isLoading']_vars

(* C1, amended: the invocation of an Orchestrator operation sets loading   *)
(* to true, the settlement of one (success or failure) sets it to false,   *)
(* and no other step changes it.  So loading is true from an operation's   *)
(* invocation until the next settlement of any Orchestrator operation, its *)
(* own unless another one in flight settles first, and false from a        *)
(* settlement until the next invocation.                                   *)
C1_LoadingFollowsLastEvent ==
    [][/\ \A c \in CallIds : InvokesOrchestrated(c) => isLoading'
       /\ \A c \in CallIds : SettlesOrchestrated(c) => ~isLoading'
       /\ (\A c \in CallIds : ~InvokesOrchestrated(c) /\ ~SettlesOrchestrated(c))
             => isLoading' = isLoading]_vars

(* One operation has settled as failed, a later one is in flight, and      *)
(* loading is true.                                                        *)
C1_Witness ==
    \E c, d \in CallIds :
        /\ c # d /\ Orchestrated(c) /\ Orchestrated(d)
        /\ Done(c) /\ calls[c].result.status = "rejected"
        /\ InFlight(d) /\ isLoading

---------------------------------------------------------------------------
(* C2 *)

(* C2 as stated: when the binding of an Orchestrator operation resolves,   *)
(* the stored error is none in the state the settlement produces and the   *)
(* caller receives exactly the value of the binding.                       *)
C2_SuccessClearsError ==
    [][\A c \in CallIds :
          (SettlesOrchestrated(c) /\ calls'[c].binding.status = "resolved")
             => /\ error' = null
                /\ calls'[c].result = Resolved(calls'[c].binding.data)]_vars

(* C2, amended: when the binding resolves the caller receives exactly the  *)
(* value of the binding and the settlement leaves the stored error as it   *)
(* was; the error is written only by an invocation (to none) and by a      *)
(* failing settlement.  So after a success the error is none unless        *)
(* another Orchestrator operation failed after this one was invoked.       *)
C2_SuccessReturnsBindingValue ==
    [][/\ \A c \in CallIds :
            (SettlesOrchestrated(c) /\ calls'[c].binding.status = "resolved")
               => /\ error' = error
                  /\ calls'[c].binding.data \in Bodies
                  /\ calls'[c].result = Resolved(calls'[c].binding.data)
       /\ \A c \in CallIds : InvokesOrchestrated(c) => error' = null
       /\ (\A c \in CallIds :
              /\ ~InvokesOrchestrated(c)
              /\ ~(SettlesOrchestrated(c) /\ calls'[c].binding.status = "rejected"))
             => error' = error]_vars

(* getAllCsvData has returned the rows the remote answered with, and the   *)
(* stored error is none.                                                   *)
C2_Witness ==
    \E c \in CallIds :
        /\ calls[c].op = "getAllCsvData" /\ Done(c)
        /\ calls[c].response = Resolved("[{id:1}]")
        /\ calls[c].result = Resolved("[{id:1}]")
        /\ error = null

---------------------------------------------------------------------------
(* C3 *)

(* C3: when the binding of an Orchestrator operation fails, the settlement *)
(* stores an error (the slot is not none) and the operation rejects to its *)
(* caller with an error; it never returns normally.                        *)
C3_FailureStoredAndRaised ==
    [][\A c \in CallIds :
          (SettlesOrchestrated(c) /\ calls'[c].binding.status = "rejected")
             => /\ error' # null
                /\ IsError(error')
                /\ calls'[c].result.status = "rejected"
                /\ calls'[c].result.err # null]_vars

(* An operation other than analyzeImage has failed: its error is stored    *)
(* and was raised to the caller.                                           *)
C3_Witness ==
    \E c \in CallIds :
        /\ Orchestrated(c) /\ calls[c].op # "analyzeImage" /\ Done(c)
        /\ calls[c].binding.status = "rejected"
        /\ calls[c].result.status = "rejected"
        /\ error = calls[c].result.err

---------------------------------------------------------------------------
(* C4 *)

(* C4 as stated: when the binding of analyzeImage fails with an error      *)
(* whose message contains "timeout", the error raised to the caller        *)
(* carries the fixed "took too long" text; with "Network", a message       *)
(* containing the base address; with "404" or "500", the fixed "endpoint   *)
(* not found" or "server error" text; any other message is raised          *)
(* unchanged.                                                              *)
C4_AnalyzeImageRewritesMessage ==
    \A c \in CallIds :
        (calls[c].op = "analyzeImage" /\ Done(c)
            /\ calls[c].binding.status = "rejected")
        => LET m == calls[c].binding.err.message
               s == calls[c].result.err.message
           IN /\ calls[c].result.status = "rejected"
              /\ Includes(m, "timeout") => s = TookTooLongMessage
              /\ (~Includes(m, "timeout") /\ Includes(m, "Network"))
                    => Includes(s, GEMINI_API_URL)
              /\ (~Includes(m, "timeout") /\ ~Includes(m, "Network")
                    /\ Includes(m, "404")) => s = EndpointNotFoundMessage
              /\ (~Includes(m, "timeout") /\ ~Includes(m, "Network")
                    /\ ~Includes(m, "404") /\ Includes(m, "500"))
                    => s = ServerErrorMessage
              /\ (~Includes(m, "timeout") /\ ~Includes(m, "Network")
                    /\ ~Includes(m, "404") /\ ~Includes(m, "500")) => s = m

---------------------------------------------------------------------------
(* C5 *)

(* C5: in uploadFile, if the GET /health probe fails, whatever the         *)
(* failure, the call rejects with the synthesized "API server is not       *)
(* reachable" error and has issued no request other than the probe; a      *)
(* request to the real endpoint has been issued only if the probe          *)
(* succeeded, and after it.                                                *)
C5_ProbeFailureStopsUpload ==
    \A c \in CallIds :
        (calls[c].pc # "idle" /\ Primitive(calls[c].op) = "uploadFile")
        => /\ calls[c].health.status = "rejected"
              => /\ Done(c)
                 /\ calls[c].binding = Rejected(NewError(UnreachableMessage))
                 /\ calls[c].sent = <<HealthProbe>>
           /\ Posts(c) # {}
              => /\ calls[c].health.status = "resolved"
                 /\ calls[c].sent = <<HealthProbe, Endpoint(calls[c].op, calls[c].id)>>

(* An upload whose probe was answered with a failure response (not a       *)
(* connection failure) has been rejected as unreachable.                   *)
C5_Witness ==
    \E c \in CallIds :
        /\ calls[c].op = "extractDataFromImage" /\ Done(c)
        /\ calls[c].health.status = "rejected"
        /\ calls[c].health.err.status = 404
        /\ calls[c].result.status = "rejected"
        /\ calls[c].result.err.message = UnreachableMessage

---------------------------------------------------------------------------
(* C6 *)

(* C6: fetchData and postData resolve with exactly the body of the         *)
(* response, and reject with the very error the underlying call raised.    *)
C6_FetchAndPostPassThrough ==
    \A c \in CallIds :
        (Done(c) /\ Primitive(calls[c].op) \in {"fetchData", "postData"})
        => /\ calls[c].response.status \in {"resolved", "rejected"}
           /\ calls[c].response.status = "resolved"
                 => calls[c].binding = Resolved(calls[c].response.data)
           /\ calls[c].response.status = "rejected"
                 => calls[c].binding = Rejected(calls[c].response.err)

(* A fetchData call has failed with a connection failure and a postData    *)
(* call has returned a body.                                               *)
C6_Witness ==
    \E c, d \in CallIds :
        /\ Done(c) /\ Primitive(calls[c].op) = "fetchData"
        /\ calls[c].response.status = "rejected"
        /\ calls[c].response.err.code = "ERR_NETWORK"
        /\ Done(d) /\ Primitive(calls[d].op) = "postData"
        /\ calls[d].response.status = "resolved"

---------------------------------------------------------------------------
(* C7 *)

(* C7 as stated: when the remote answers the upload of analyzeImage with a *)
(* failure response whose body message contains "Network error",           *)
(* analyzeImage rejects with an error whose message contains the base      *)
(* address.                                                                *)
C7_NetworkErrorBodyNamesBaseAddress ==
    \A c \in CallIds :
        (calls[c].op = "analyzeImage" /\ Done(c)
            /\ calls[c].response.status = "rejected"
            /\ Includes(calls[c].response.err.data, "Network error"))
        => /\ calls[c].result.status = "rejected"
           /\ Includes(calls[c].result.err.message, GEMINI_API_URL)

---------------------------------------------------------------------------
(* C9 *)

(* C9: no retries.  Every invoked call has invoked its binding exactly     *)
(* once; it has issued at most one request to its real endpoint and, for   *)
(* uploadFile only, at most one probe before it; and once a request has    *)
(* failed the call is settled as failed, with no request issued after the  *)
(* failed one.                                                             *)
C9_NoRetries ==
    \A c \in CallIds :
        /\ calls[c].pc = "idle" => calls[c].bindingCalls = 0 /\ calls[c].sent = <<>>
        /\ calls[c].pc # "idle" => calls[c].bindingCalls = 1
        /\ Cardinality(Posts(c)) <= 1
        /\ Cardinality(Probes(c)) <= 1
        /\ Probes(c) # {} => Primitive(calls[c].op) = "uploadFile"
        /\ calls[c].health.status = "rejected"
              => /\ Done(c) /\ calls[c].result.status = "rejected"
                 /\ Len(calls[c].sent) = 1
        /\ calls[c].response.status = "rejected"
              => /\ Done(c) /\ calls[c].result.status = "rejected"
                 /\ Cardinality(Posts(c)) = 1

(* An upload has failed at its real endpoint after a successful probe,     *)
(* and another call has failed at its only request.                        *)
C9_Witness ==
    \E c, d \in CallIds :
        /\ Done(c) /\ Primitive(calls[c].op) = "uploadFile"
        /\ calls[c].response.status = "rejected" /\ Len(calls[c].sent) = 2
        /\ Done(d) /\ Primitive(calls[d].op) = "apiClient.post"
        /\ calls[d].response.status = "rejected" /\ Len(calls[d].sent) = 1

---------------------------------------------------------------------------
(* C8 *)

(* C8: the last completion wins.  When an Orchestrator operation settles   *)
(* while it shares the slot with another one (another Orchestrator         *)
(* operation is in flight, or an error is stored, which only an operation  *)
(* that failed during this one's flight can have left), the settlement     *)
(* sets loading to false although the other operation stays in flight,     *)
(* and a failing settlement replaces the stored error by its own.          *)
C8_LastCompletionOverwrites ==
    [][\A c \in CallIds :
          (/\ SettlesOrchestrated(c)
           /\ \/ \E d \in CallIds : d # c /\ Orchestrated(d) /\ InFlight(d)
              \/ error # null)
          => /\ ~isLoading'
             /\ \A d \in CallIds : d # c => calls'[d] = calls[d]
             /\ (calls'[c].binding.status = "rejected"
                   /\ IsError(calls'[c].binding.err))
                   => error' = calls'[c].result.err]_vars

(* Two operations overlapped and both failed, with different errors; the   *)
(* one invoked first settled last, and the error of the other is no longer *)
(* visible.                                                                *)
C8_Witness ==
    \E c, d \in CallIds :
        /\ c < d /\ Orchestrated(c) /\ Orchestrated(d)
        /\ Done(c) /\ Done(d)
        /\ calls[c].result.status = "rejected"
        /\ calls[d].result.status = "rejected"
        /\ calls[c].result.err # calls[d].result.err
        /\ error = calls[c].result.err
        /\ ~isLoading

---------------------------------------------------------------------------
(* C10 *)

(* The operations and answers of the fair behaviours: one operation per   *)
(* transport primitive and per catch branch, one body, a failure that      *)
(* uploadFile replaces and one that it throws again.                       *)
FairOps ==
    { "analyzeImage", "extractDataFromImage", "getAnalysisResults",
      "createDatabase", "getAllCsvData" }

FairBodies == { "{}" }

FairFailures == { e \in AxiosFailures : e.code \in {"ERR_NETWORK", "ERR_BAD_RESPONSE"} }

FairNext == NextOver(FairOps, FairBodies, FairFailures)

(* Every request handed to apiClient settles: it is answered, fails, or    *)
(* is aborted by the client's timeout (API_TIMEOUT).                       *)
FairSpec ==
    /\ Init
    /\ [][FairNext]_vars
    /\ \A c \in CallIds : WF_vars(Responds(c, FairBodies, FairFailures))

NoneInFlight == \A c \in CallIds : Orchestrated(c) => ~InFlight(c)

(* C10: under any interleaving, loading is false whenever no Orchestrator  *)
(* operation is in flight, and every invoked operation settles once its    *)
(* requests have settled, so that loading does not stay true.              *)
C10_LoadingNotStuck ==
    /\ [](NoneInFlight => ~isLoading)
    /\ \A c \in CallIds : (InFlight(c) ~> Done(c))

(* Both operations have settled, the one invoked first as the last one,    *)
(* and loading is false.                                                   *)
C10_Witness ==
    /\ \A c \in CallIds : Orchestrated(c) /\ Done(c)
    /\ calls[1].result.status = "rejected"
    /\ error = calls[1].result.err
    /\ ~isLoading

====
